---- MODULE Spec2Model ----
(***************************************************************************)
(* Model of the remote helpers of lib/utils/aws.py (invoke_lambda,         *)
(* publish_to_sns_topic, send_event_to_logstream) and of the /contact      *)
(* handler of lib/stacks/api/api/main.py.                                  *)
(*                                                                         *)
(* Text is modelled as a sequence of one-character strings, so that        *)
(* str.split / str.strip are computed rather than assumed.                 *)
(***************************************************************************)
EXTENDS Integers, Sequences, FiniteSets, TLC

\* ------------------------------------------------------------------ bounds
\* longest error message the log service answers with (characters)
MaxMsgLen == 3
\* most records already in the stream when the concurrent writers start
MaxInitRecords == 2

\* ------------------------------------------------------- Python constants
\* Python None, and "keyword argument not passed"; both are kept apart from
\* every text (a text only holds one-character strings)
None == <<"None">>
NoParam == <<"absent">>

Alphabet == {":", " ", "a"}
\* every text of at most MaxMsgLen characters
Messages == UNION {[1..n -> Alphabet] : n \in 0..MaxMsgLen}

\* ------------------------------------------------ str.split / str.strip
\* position of the last ":" of msg, 0 when there is none
LastColon(msg) ==
  LET idx == {i \in 1..Len(msg) : msg[i] = ":"}
  IN  IF idx = {} THEN 0 ELSE CHOOSE i \in idx : \A j \in idx : j <= i

\* msg.split(":")[-1]
LastSegment(msg) == SubSeq(msg, LastColon(msg) + 1, Len(msg))

RECURSIVE LStrip(_)
LStrip(s) == IF s # <<>> /\ Head(s) = " " THEN LStrip(Tail(s)) ELSE s

RECURSIVE RStrip(_)
RStrip(s) ==
  IF s # <<>> /\ s[Len(s)] = " " THEN RStrip(SubSeq(s, 1, Len(s) - 1)) ELSE s

\* s.strip(" ")
Strip(s) == RStrip(LStrip(s))

\* aws.py:133  error.response["Error"]["Message"].split(":")[-1].strip(" ")
ExtractToken(msg) == Strip(LastSegment(msg))

TruthyNotNone(sequence_token) == sequence_token # None

\* aws.py:101  `if sequence_token:` (None and "" are both false)
Truthy(sequence_token) == sequence_token # None /\ sequence_token # <<>>

ConflictCodes == {"DataAlreadyAcceptedException", "InvalidSequenceTokenException"}
OtherCodes == {"ResourceNotFoundException"}

IsConflictAny(code) == code \in ConflictCodes \cup OtherCodes

\* aws.py:126-127
IsConflict(code) == code \in ConflictCodes

InitialRetrialsFive == 5
InitialRetrialsTwo == 2

\* aws.py:87  retrials = 3
InitialRetrials == 3

MessageTruthyAlways(message) == TRUE

\* aws.py:89  `if message:` (an empty mapping is false)
MessageTruthy(message) == message # {}

\* aws.py:138  `if retrials > 0:`
CanRetry(retrials) == retrials > 0

\* aws.py:99  `while (not done) and retrials > 0:`
LoopGuard(l) == (~l.done) /\ l.retrials > 0

\* ---------------------------------------------------------------- outcomes
Running == [kind |-> "running", exc |-> "", status |-> 0, text |-> "", value |-> None]
Return(v) == [kind |-> "return", exc |-> "", status |-> 0, text |-> "", value |-> v]
Raise(e, s, t, d) == [kind |-> "raise", exc |-> e, status |-> s, text |-> t, value |-> d]

SuccessText == "Successfully delivered event content"
ExhaustedText == "Failed sending event content to CloudWatch Logs after 3 retrials"
UnexpectedText == "Unexpected response from boto client: %s"
NoContentText == "No content to send to Log Stream, aborting"

\* ------------------------------------------- send_event_to_logstream
\* answers of the log service to put_log_events
OkAnswer == [kind |-> "ok", code |-> "", message |-> <<>>]
ClientError(c, m) == [kind |-> "ClientError", code |-> c, message |-> m]
Answers ==
  {OkAnswer} \cup {ClientError(c, m) : c \in ConflictCodes \cup OtherCodes, m \in Messages}

\* aws.py:85-87  locals at entry
EntryLocals == [sequence_token |-> None, done |-> FALSE, retrials |-> InitialRetrials,
                result |-> Running]

\* aws.py:101-116  the put_log_events call one loop iteration makes
PutLogEventsRequest(l) ==
  [api |-> "put_log_events",
   arg |-> IF Truthy(l.sequence_token) THEN l.sequence_token ELSE NoParam]

HandleAnswerKeepsFirst(l, answer) ==
  IF answer.kind = "ok"
  THEN [l EXCEPT !.done = TRUE, !.result = Return(SuccessText)]
  ELSE IF IsConflict(answer.code)
  THEN LET r == l.retrials - 1
       IN  [sequence_token |-> IF l.sequence_token = None
                               THEN ExtractToken(answer.message)
                               ELSE l.sequence_token,
            done |-> l.done,
            retrials |-> r,
            result |-> IF CanRetry(r) THEN Running
                       ELSE Raise("HandledError", 500, ExhaustedText, None)]
  ELSE [l EXCEPT !.result = Raise("HandledError", 500, UnexpectedText, answer)]

\* aws.py:118-149  what the iteration does with the answer to its call
HandleAnswer(l, answer) ==
  IF answer.kind = "ok"
  THEN [l EXCEPT !.done = TRUE, !.result = Return(SuccessText)]
  ELSE IF IsConflict(answer.code)
  THEN LET r == l.retrials - 1
       IN  [sequence_token |-> ExtractToken(answer.message),
            done |-> l.done,
            retrials |-> r,
            result |-> IF CanRetry(r) THEN Running
                       ELSE Raise("HandledError", 500, ExhaustedText, None)]
  ELSE [l EXCEPT !.result = Raise("HandledError", 500, UnexpectedText, answer)]

\* aws.py:99-149  one pass of the while loop, then the loop test: falling out
\* of the loop reaches the end of the function, which returns None
Iteration(l, answer) ==
  LET n == HandleAnswer(l, answer)
  IN  IF n.result.kind = "running" /\ ~LoopGuard(n)
      THEN [n EXCEPT !.result = Return(None)]
      ELSE n

\* ------------------------------------------------------------- Response
\* utils.Response is a plain carrier: Response() is empty, put() stores the
\* value, text reads it back
NewResponse == [body |-> None]
ResponsePut(response, v) == [response EXCEPT !.body = v]
ResponseText(response) == response.body
\* HandledError raised without status_code
DefaultStatusCode == 400

\* Python's exception classes: the class and its bases
Bases(exc) ==
  CASE exc = "SystemExit" -> {"SystemExit", "BaseException"}
    [] exc = "HandledError" -> {"HandledError", "Exception", "BaseException"}
    [] exc = "JSONDecodeError" -> {"JSONDecodeError", "ValueError", "Exception", "BaseException"}
    [] OTHER -> {exc, "Exception", "BaseException"}

\* `except classes:` catches exc
Caught(exc, classes) == Bases(exc) \cap classes # {}

\* ------------------------------------------------------------------ JSON
\* A JSON text is a sequence of tokens: the punctuation, the scalar "1", and
\* one token per object member (the token "name" stands for `"name": "v"`).
MemberKeys == {"source", "name", "email", "description", "extra"}
KeyOrder == <<"source", "name", "email", "description", "extra">>
Invalid == {"<invalid>"}

\* text[i..] is `item (, item)* closer` and nothing more: the set of items
RECURSIVE ItemsFrom(_, _, _, _)
ItemsFrom(text, i, items, closer) ==
  IF i + 1 > Len(text) \/ text[i] \notin items THEN Invalid
  ELSE IF text[i + 1] = closer
  THEN IF i + 1 = Len(text) THEN {text[i]} ELSE Invalid
  ELSE IF text[i + 1] = ","
  THEN LET more == ItemsFrom(text, i + 2, items, closer)
       IN  IF more = Invalid THEN Invalid ELSE {text[i]} \cup more
  ELSE Invalid

Parsed(t, k) == [exc |-> "", type |-> t, keys |-> k]
ParseError(e) == [exc |-> e, type |-> "", keys |-> {}]

\* json.loads / json.load
JsonLoads(text) ==
  IF text = None THEN ParseError("TypeError")
  ELSE IF text = <<>> THEN ParseError("JSONDecodeError")
  ELSE IF text = <<"1">> THEN Parsed("number", {})
  ELSE IF text = <<"[", "]">> THEN Parsed("array", {})
  ELSE IF text = <<"{", "}">> THEN Parsed("object", {})
  ELSE IF text[1] = "["
  THEN IF ItemsFrom(text, 2, {"1"}, "]") = Invalid
       THEN ParseError("JSONDecodeError") ELSE Parsed("array", {})
  ELSE IF text[1] = "{"
  THEN LET ks == ItemsFrom(text, 2, MemberKeys, "}")
       IN  IF ks = Invalid THEN ParseError("JSONDecodeError") ELSE Parsed("object", ks)
  ELSE ParseError("JSONDecodeError")

\* the members of K in a fixed order, comma separated
RECURSIVE Join(_)
Join(ks) ==
  IF ks = <<>> THEN <<>>
  ELSE IF Len(ks) = 1 THEN ks
  ELSE <<Head(ks), ",">> \o Join(Tail(ks))

Members(K) == Join(SelectSeq(KeyOrder, LAMBDA k : k \in K))

\* request bodies: no body, objects over every set of members, and the ways
\* a body fails to be an object
Bodies ==
  {None, <<"1">>, <<"[", "1", "]">>, <<"[", "1", ",", "1", "]">>}
    \cup {<<"{">> \o Members(K) \o <<"}">> : K \in SUBSET MemberKeys}
    \cup {<<"{">> \o Members(K) : K \in SUBSET MemberKeys}
    \cup {<<"{">> \o Members(K) \o <<",", "}">> : K \in SUBSET MemberKeys}
    \cup {Members(K) : K \in SUBSET MemberKeys}

\* ---------------------------------------------------------- invoke_lambda
InvokeTypes == {"DryRun", "RequestResponse", "Event", "Bogus"}
StatusCodes == {199, 200, 204, 299, 300, 500}
Payloads == {<<>>, <<"1">>, <<"{", "}">>, <<"{", "source", "}">>, <<"{">>}
LambdaResponses == [kind : {"lambda"}, StatusCode : StatusCodes, Payload : Payloads]

\* aws.py:23
ValidInvokeType(invoke_type) == invoke_type \in {"DryRun", "RequestResponse", "Event"}

\* aws.py:40
Deserializes(invoke_type) == invoke_type \in {"DryRun", "RequestResponse"}

\* aws.py:45
StatusOk(status) == 200 <= status /\ status < 300

\* aws.py:38-49  what invoke_lambda does with the answer of lambda_client.invoke
InvokeLambdaResult(invoke_type, lambda_resp) ==
  LET lambda_payload == JsonLoads(lambda_resp.Payload)
  IN  IF Deserializes(invoke_type) /\ lambda_payload.exc # ""
      THEN Raise(lambda_payload.exc, 0, "", None)
      ELSE IF ~StatusOk(lambda_resp.StatusCode)
      THEN Raise("HandledError", lambda_resp.StatusCode, "lambda response: %s", lambda_resp)
      ELSE Return(IF Deserializes(invoke_type)
                  THEN ResponsePut(NewResponse, lambda_payload)
                  ELSE NewResponse)

\* --------------------------------------------------- publish_to_sns_topic
SnsKeys == {"MessageId", "ResponseMetadata"}
SnsValues == {"m1", "m2"}
SnsResponses == UNION {[K -> SnsValues] : K \in SUBSET SnsKeys}

PublishResultHandled(sns_response) ==
  IF "MessageId" \in DOMAIN sns_response
  THEN Return(ResponsePut(NewResponse, sns_response["MessageId"]))
  ELSE Raise("HandledError", 500, "Missing MessageId in SNS response", None)

\* aws.py:68-74
PublishResult(sns_response) ==
  IF "MessageId" \in DOMAIN sns_response
  THEN Return(ResponsePut(NewResponse, sns_response["MessageId"]))
  ELSE Raise("SystemExit", 0, "Missing MessageId in SNS response", None)

\* ---------------------------------------------------------------- contact
FormatKeysThree == <<"source", "name", "email">>

\* main.py:39-42  the fields of the format string, in order
FormatKeys == <<"source", "name", "email", "description">>

\* main.py:34-49  msg, or the HandledError the body is answered with
ContactParse(body) ==
  LET obj == JsonLoads(body)
      missing == SelectSeq(FormatKeys, LAMBDA k : k \notin obj.keys)
  IN  IF obj.exc # ""
      THEN Raise("HandledError", DefaultStatusCode, "JSON body is malformatted: %s", <<obj.exc>>)
      ELSE IF obj.type # "object"
      THEN Raise("HandledError", DefaultStatusCode, "JSON body is malformatted: %s", <<"TypeError">>)
      ELSE IF missing # <<>>
      THEN Raise("HandledError", DefaultStatusCode, "Missing JSON key: %s", <<Head(missing)>>)
      ELSE Return([i \in 1..Len(FormatKeys) |-> <<i, FormatKeys[i]>>])

\* ------------------------------------------------------- the log stream
Writers == {"w1", "w2"}

\* the sequence token the stream expects: it changes with every append
RECURSIVE TokenOf(_)
TokenOf(stream) == IF stream = <<>> THEN <<>> ELSE <<"a">> \o TokenOf(Tail(stream))

\* the stream accepts an append that carries its current token (no token when
\* it is empty) and answers any other with a conflict embedding the token
StreamAccepts(stream, request) ==
  IF stream = <<>> THEN request.arg = NoParam ELSE request.arg = TokenOf(stream)

StreamAnswer(stream, request) ==
  IF StreamAccepts(stream, request) THEN OkAnswer
  ELSE ClientError("InvalidSequenceTokenException",
                   <<"i", "s", ":", " ">> \o TokenOf(stream))

VARIABLES op, pc, args, locals, remote, netCalls, outcome, writers, stream
vars == <<op, pc, args, locals, remote, netCalls, outcome, writers, stream>>

NoAnswer == [kind |-> "none", code |-> "", message |-> <<>>]
LogMessages == {{}, {"k"}}

\* one invocation of one entry point, on arguments of its domain
Init ==
  /\ \/ op = "send_event_to_logstream" /\ args \in [message : LogMessages]
     \/ op = "publish_to_sns_topic" /\ args \in [subject : {"s"}]
     \/ op = "invoke_lambda" /\ args \in [invoke_type : InvokeTypes]
     \/ op = "contact" /\ args \in [body : Bodies]
  /\ pc = "entry"
  /\ locals = <<>>
  /\ remote = NoAnswer
  /\ netCalls = <<>>
  /\ outcome = Running
  /\ writers = <<>>
  /\ stream = <<>>

\* aws.py:77-97
SendEventEntry ==
  /\ op = "send_event_to_logstream" /\ pc = "entry"
  /\ locals' = EntryLocals
  /\ IF MessageTruthy(args.message)
     THEN /\ pc' = "loop"
          /\ outcome' = outcome
     ELSE /\ pc' = "done"
          /\ outcome' = Raise("HandledError", 500, NoContentText, None)
  /\ UNCHANGED <<op, args, remote, netCalls, writers, stream>>

\* aws.py:99-149
SendEventAttempt ==
  /\ op = "send_event_to_logstream" /\ pc = "loop"
  /\ \E answer \in Answers :
       LET n == Iteration(locals, answer)
       IN  /\ netCalls' = Append(netCalls, PutLogEventsRequest(locals))
           /\ remote' = answer
           /\ locals' = n
           /\ outcome' = n.result
           /\ pc' = IF n.result.kind = "running" THEN "loop" ELSE "done"
  /\ UNCHANGED <<op, args, writers, stream>>

\* aws.py:52-74
PublishToSnsTopic ==
  /\ op = "publish_to_sns_topic" /\ pc = "entry"
  /\ \E sns_response \in SnsResponses :
       /\ netCalls' = Append(netCalls, [api |-> "publish", arg |-> NoParam])
       /\ remote' = [kind |-> "sns", body |-> sns_response]
       /\ outcome' = PublishResult(sns_response)
  /\ pc' = "done"
  /\ UNCHANGED <<op, args, locals, writers, stream>>

\* aws.py:21-49
InvokeLambda ==
  /\ op = "invoke_lambda" /\ pc = "entry"
  /\ IF ~ValidInvokeType(args.invoke_type)
     THEN /\ outcome' = Raise("HandledError", 400, "invalid invoke_type: %s", <<args.invoke_type>>)
          /\ UNCHANGED <<netCalls, remote>>
     ELSE \E lambda_resp \in LambdaResponses :
            /\ netCalls' = Append(netCalls, [api |-> "invoke", arg |-> <<args.invoke_type>>])
            /\ remote' = lambda_resp
            /\ outcome' = InvokeLambdaResult(args.invoke_type, lambda_resp)
  /\ pc' = "done"
  /\ UNCHANGED <<op, args, locals, writers, stream>>

\* main.py:28-53
ContactBody ==
  /\ op = "contact" /\ pc = "entry"
  /\ LET msg == ContactParse(args.body)
     IN  IF msg.kind = "raise"
         THEN /\ pc' = "done"
              /\ outcome' = msg
              /\ locals' = locals
         ELSE /\ pc' = "invoke"
              /\ outcome' = outcome
              /\ locals' = [msg |-> msg.value, invoked |-> Running]
  /\ UNCHANGED <<op, args, remote, netCalls, writers, stream>>

\* main.py:55-60  invoke_lambda with the default invoke_type, then .text
ContactInvoke ==
  /\ op = "contact" /\ pc = "invoke"
  /\ \E lambda_resp \in LambdaResponses :
       LET r == InvokeLambdaResult("RequestResponse", lambda_resp)
       IN  /\ netCalls' = Append(netCalls, [api |-> "invoke", arg |-> <<"RequestResponse">>])
           /\ remote' = lambda_resp
           /\ locals' = [locals EXCEPT !.invoked = r]
           /\ outcome' = IF r.kind = "return" THEN Return(ResponseText(r.value)) ELSE r
  /\ pc' = "done"
  /\ UNCHANGED <<op, args, writers, stream>>

Next ==
  \/ SendEventEntry
  \/ SendEventAttempt
  \/ PublishToSnsTopic
  \/ InvokeLambda
  \/ ContactBody
  \/ ContactInvoke

Spec == Init /\ [][Next]_vars

\* ------------------------------------------- two writers, one log stream
InitConc ==
  /\ op = "concurrent"
  /\ pc = "done"
  /\ args = <<>>
  /\ locals = <<>>
  /\ remote = NoAnswer
  /\ netCalls = <<>>
  /\ outcome = Running
  /\ writers \in [Writers -> [pc : {"entry"}, message : {{"k"}, {"j", "k"}},
                              locals : {EntryLocals}, calls : {0}]]
  /\ \E n \in 0..MaxInitRecords : stream = [i \in 1..n |-> "old"]

\* aws.py:77-97
WriterEntry(w) ==
  /\ op = "concurrent" /\ writers[w].pc = "entry"
  /\ writers' = [writers EXCEPT
       ![w].locals = IF MessageTruthy(writers[w].message) THEN EntryLocals
                     ELSE [EntryLocals EXCEPT
                             !.result = Raise("HandledError", 500, NoContentText, None)],
       ![w].pc = IF MessageTruthy(writers[w].message) THEN "loop" ELSE "done"]
  /\ UNCHANGED <<op, pc, args, locals, remote, netCalls, outcome, stream>>

\* aws.py:99-149  the call reaches the stream, which answers it
WriterAttempt(w) ==
  /\ op = "concurrent" /\ writers[w].pc = "loop"
  /\ LET request == PutLogEventsRequest(writers[w].locals)
         answer == StreamAnswer(stream, request)
         n == Iteration(writers[w].locals, answer)
     IN  /\ stream' = IF answer.kind = "ok" THEN Append(stream, w) ELSE stream
         /\ writers' = [writers EXCEPT
              ![w].locals = n,
              ![w].calls = @ + 1,
              ![w].pc = IF n.result.kind = "running" THEN "loop" ELSE "done"]
  /\ UNCHANGED <<op, pc, args, locals, remote, netCalls, outcome>>

NextConc == \E w \in Writers : WriterEntry(w) \/ WriterAttempt(w)

SpecConc == InitConc /\ [][NextConc]_vars

\* ================================================================ claims
IsLog == op = "send_event_to_logstream"
LastCall == netCalls[Len(netCalls)]
ConflictAnswer(a) ==
  a.kind = "ClientError"
    /\ a.code \in {"DataAlreadyAcceptedException", "InvalidSequenceTokenException"}

\* t is the text after the last colon of msg with the spaces around it removed
IsTokenOf(t, msg) ==
  \E i \in 0..Len(msg) :
    /\ i = 0 \/ msg[i] = ":"
    /\ \A k \in (i + 1)..Len(msg) : msg[k] # ":"
    /\ \E a \in (i + 1)..(Len(msg) + 1), b \in i..Len(msg) :
         /\ t = SubSeq(msg, a, b)
         /\ \A k \in (i + 1)..(a - 1) : msg[k] = " "
         /\ \A k \in (b + 1)..Len(msg) : msg[k] = " "
         /\ t = <<>> \/ (t[1] # " " /\ t[Len(t)] # " ")

\* nothing but spaces after the last colon of msg
TrailingBlank(msg) == IsTokenOf(<<>>, msg)

\* C1: after three conflicts a 4th put_log_events call is made, and only a
\* conflict on that 4th call gives the budget-exhausted failure.
C1_FourthAttempt ==
  IsLog =>
    /\ (Len(netCalls) = 3 /\ ConflictAnswer(remote)) => pc = "loop"
    /\ outcome.text = ExhaustedText => Len(netCalls) = 4

\* C2 (as stated): the first call carries no token, and every later call
\* carries the token of the conflict just before it, never no token.
C2_AlwaysCarriesToken ==
  [][(IsLog /\ Len(netCalls') = Len(netCalls) + 1) =>
       IF netCalls = <<>>
       THEN netCalls'[1].arg = NoParam
       ELSE /\ IsTokenOf(netCalls'[Len(netCalls')].arg, remote.message)
            /\ netCalls'[Len(netCalls')].arg # NoParam]_vars

\* C2 (amended): the first call carries no token; every later call carries
\* the token of the conflict just before it when that token is not empty,
\* and no token when it is empty.
C2_CarriesPrecedingToken ==
  [][(IsLog /\ Len(netCalls') = Len(netCalls) + 1) =>
       IF netCalls = <<>>
       THEN netCalls'[1].arg = NoParam
       ELSE /\ ConflictAnswer(remote)
            /\ IF TrailingBlank(remote.message)
               THEN netCalls'[Len(netCalls')].arg = NoParam
               ELSE IsTokenOf(netCalls'[Len(netCalls')].arg, remote.message)]_vars

C2_Witness ==
  /\ IsLog /\ Len(netCalls) = 3
  /\ netCalls[2].arg # NoParam /\ netCalls[3].arg # NoParam
  /\ netCalls[2].arg # netCalls[3].arg

\* C3: a call never makes a 5th put_log_events call, ends only by returning
\* the success text or raising HandledError, and ends with HandledError 500
\* "after 3 retrials" when its attempts were all answered with conflicts.
C3_BoundedAndDecided ==
  IsLog =>
    /\ Len(netCalls) <= 4
    /\ pc = "done" =>
         \/ outcome = Return(SuccessText)
         \/ outcome.kind = "raise" /\ outcome.exc = "HandledError"
    /\ (pc = "done" /\ ConflictAnswer(remote)) =>
         /\ outcome.kind = "raise" /\ outcome.exc = "HandledError"
         /\ outcome.status = 500
         /\ outcome.text = "Failed sending event content to CloudWatch Logs after 3 retrials"

C3_Witness == IsLog /\ pc = "done" /\ ConflictAnswer(remote) /\ Len(netCalls) >= 3

\* C4: a client error that is not one of the two conflicts ends the call at
\* once: HandledError 500 holding the error, no further call, and the budget
\* is what the conflicts before it left.
C4_OtherErrorIsFatal ==
  (IsLog /\ remote.kind = "ClientError" /\ ~ConflictAnswer(remote)) =>
    /\ pc = "done"
    /\ outcome = Raise("HandledError", 500, UnexpectedText, remote)
    /\ locals.retrials = 3 - (Len(netCalls) - 1)
    /\ ~ENABLED SendEventAttempt

C4_Witness ==
  /\ IsLog /\ remote.kind = "ClientError" /\ ~ConflictAnswer(remote)
  /\ Len(netCalls) = 3 /\ locals.retrials = 1

\* C5: an empty message raises HandledError 500 with no put_log_events call.
C5_EmptyMessage ==
  (IsLog /\ args.message = {} /\ pc # "entry") =>
    /\ pc = "done"
    /\ outcome.kind = "raise" /\ outcome.exc = "HandledError" /\ outcome.status = 500
    /\ netCalls = <<>>

C5_Witness == IsLog /\ args.message = {} /\ pc = "done"

\* C6: after the publish call, an acknowledgment without MessageId raises
\* SystemExit, which neither `except HandledError` nor `except Exception`
\* catches; one with MessageId returns a Response carrying that identifier.
C6_MissingIdExits ==
  (op = "publish_to_sns_topic" /\ pc = "done") =>
    /\ Len(netCalls) = 1 /\ netCalls[1].api = "publish"
    /\ IF "MessageId" \in DOMAIN remote.body
       THEN outcome.kind = "return" /\ ResponseText(outcome.value) = remote.body["MessageId"]
       ELSE /\ outcome.kind = "raise" /\ outcome.exc = "SystemExit"
            /\ ~Caught(outcome.exc, {"HandledError", "Exception"})

C6_Witness ==
  op = "publish_to_sns_topic" /\ pc = "done" /\ "MessageId" \notin DOMAIN remote.body

\* C7: with a valid mode, a remote status outside [200,300) gives HandledError
\* with that status whatever the payload, and a Response is returned only for
\* a status inside [200,300).
C7_StatusDecides ==
  (op = "invoke_lambda" /\ pc = "done"
     /\ args.invoke_type \in {"DryRun", "RequestResponse", "Event"}) =>
    /\ ~(200 <= remote.StatusCode /\ remote.StatusCode < 300) =>
         /\ outcome.kind = "raise" /\ outcome.exc = "HandledError"
         /\ outcome.status = remote.StatusCode
    /\ outcome.kind = "return" => (200 <= remote.StatusCode /\ remote.StatusCode < 300)

\* number of records of writer w in the stream
Count(s, w) == Cardinality({i \in 1..Len(s) : s[i] = w})

\* C8: with two concurrent writers on one stream, a writer that has ended has
\* returned success with its record in the stream exactly once; no writer
\* raises, and no record is appended twice.
C8_BothDelivered ==
  op = "concurrent" =>
    \A w \in Writers :
      /\ Count(stream, w) <= 1
      /\ writers[w].locals.result.kind # "raise"
      /\ writers[w].pc = "done" =>
           /\ writers[w].locals.result = Return(SuccessText)
           /\ Count(stream, w) = 1

C8_Witness ==
  /\ op = "concurrent"
  /\ \A w \in Writers : writers[w].pc = "done"
  /\ \E w \in Writers : writers[w].calls = 3

\* the body is a JSON object holding the four keys
ValidContactBody(body) ==
  \E K \in SUBSET MemberKeys :
    /\ {"source", "name", "email", "description"} \subseteq K
    /\ body = <<"{">> \o Members(K) \o <<"}">>

ContactGuarded ==
  /\ Len(netCalls) <= 1
  /\ netCalls # <<>> => ValidContactBody(args.body)
  /\ (pc = "done" /\ ~ValidContactBody(args.body)) =>
       /\ netCalls = <<>>
       /\ outcome.kind = "raise" /\ outcome.exc = "HandledError"

\* C9 (as stated): the lambda is invoked at most once and only for a valid
\* body; an invalid body raises HandledError with no invocation; a valid body
\* invokes once and returns the invocation's response text.
C9_ValidBodyReturns ==
  op = "contact" =>
    /\ ContactGuarded
    /\ (pc = "done" /\ ValidContactBody(args.body)) =>
         /\ Len(netCalls) = 1
         /\ outcome.kind = "return"
         /\ outcome.value = ResponseText(locals.invoked.value)

\* C9 (amended): as stated, except that a valid body returns the response
\* text only when invoke_lambda returns; when invoke_lambda raises, the
\* handler raises the same exception, still after exactly one invocation.
C9_ValidBodyInvokesOnce ==
  op = "contact" =>
    /\ ContactGuarded
    /\ (pc = "done" /\ ValidContactBody(args.body)) =>
         /\ Len(netCalls) = 1
         /\ IF locals.invoked.kind = "return"
            THEN outcome = Return(JsonLoads(remote.Payload))
            ELSE outcome = locals.invoked

C9_Witness ==
  /\ op = "contact" /\ pc = "done" /\ Len(netCalls) = 1
  /\ outcome.kind = "return" /\ outcome.value.type = "object"

\* C10: after a conflict whose message has nothing but spaces after its last
\* colon, the token is the empty string, the budget has been decremented, and
\* the next put_log_events call carries no sequenceToken.
C10_EmptyTokenOmitted ==
  [][(IsLog /\ ConflictAnswer(remote) /\ TrailingBlank(remote.message)) =>
       /\ locals.sequence_token = <<>>
       /\ locals.retrials = 3 - Len(netCalls)
       /\ Len(netCalls') = Len(netCalls) + 1 => netCalls'[Len(netCalls')].arg = NoParam]_vars

C10_Witness ==
  /\ IsLog /\ Len(netCalls) = 3
  /\ netCalls[2].arg # NoParam /\ netCalls[3].arg = NoParam
====
